---- MODULE Spec2Model ----
(***************************************************************************)
(* Model of library/kerberos.ticket.py: an Ansible module that obtains a   *)
(* Kerberos ticket with kinit unless a valid one already exists.           *)
(*                                                                         *)
(* Text is modelled as a sequence of tokens: a character of an input is    *)
(* one token, a literal piece of a command line is one token.  Python's    *)
(* str.find is modelled by Find, a real substring search.                  *)
(***************************************************************************)
EXTENDS Integers, Sequences, FiniteSets

VARIABLES
    params,       \* module.params: the task's arguments (with `missing`)
    check_mode,   \* module.check_mode
    klistOK,      \* host: can the shell run klist at all
    cache,        \* host: the ticket cache [valid, listing]
    cacheStart,   \* the cache as it was when this run started
    pc,           \* position of the run in run_module
    cmd,          \* module-level global cmd
    password,     \* module-level global password
    registered,   \* number of atexit registrations of clear_sensitive_data
    forwardable,  \* local forwardable
    principal,    \* local principal
    result,       \* local result dict
    cmd_output,   \* local cmd_output
    calls,        \* the os.popen calls of this run, in order
    output,       \* what exit_json / fail_json emitted
    run,          \* number of the current invocation
    prev          \* summary of the previous invocation

vars == <<params, check_mode, klistOK, cache, cacheStart, pc, cmd, password,
          registered, forwardable, principal, result, cmd_output, calls,
          output, run, prev>>

(***************************************************************************)
(* Bounds and input sets                                                   *)
(***************************************************************************)
MaxRuns == 2

Usernames == {<<>>, <<"a">>, <<"b", "a">>}
Realms == {<<>>, <<"R">>}
Passwords == {<<"p">>, <<"q">>}
Tri == {"None", "True", "False"}
Missing == {"none", "username", "password", "realm"}

\* principals a host's cache may hold before the first run
HostPrincipals == {<<"a", "@", "R">>, <<"b", "a", "@", "R">>, <<"c", "@", "R">>}

\* what kinit writes to stderr when it fails, with its exit status
KinitFailures == {[rc |-> 1, out |-> <<"kinit: Password incorrect">>],
                  [rc |-> 1, out |-> <<"kinit: Client not found">>],
                  [rc |-> 127, out |-> <<"sh: kinit: command not found">>]}

(***************************************************************************)
(* Values                                                                  *)
(***************************************************************************)
None == [kind |-> "None", val |-> <<>>]
Unbound == [kind |-> "Unbound", val |-> <<>>]
Str(s) == [kind |-> "Str", val |-> s]

REDACTED == <<"[REDACTED]">>

NoResult == [changed |-> FALSE, username |-> <<>>, password |-> <<>>,
             realm |-> <<>>, principal |-> <<>>, force |-> FALSE,
             forwardable |-> <<>>]

\* n counts the outcomes the process has emitted
NoOutput == [kind |-> "none", msg |-> <<>>, res |-> NoResult, n |-> 0]

NoPrev == [ran |-> FALSE, check |-> FALSE, password |-> <<>>,
           cacheStart |-> [valid |-> FALSE, listing |-> {}],
           calls |-> <<>>, output |-> NoOutput]

(***************************************************************************)
(* Pure helpers                                                            *)
(***************************************************************************)
\* str.find: lowest index of needle in hay, -1 when absent
Find(hay, needle) ==
    LET hits == {i \in 0..(Len(hay) - Len(needle)) :
                    SubSeq(hay, i + 1, i + Len(needle)) = needle}
    IN  IF hits = {} THEN -1
        ELSE CHOOSE i \in hits : \A j \in hits : i <= j

RECURSIVE ListingText(_)
\* output of `klist -l`: a header, then one line per cache
ListingText(S) ==
    IF S = {} THEN <<>>
    ELSE LET p == CHOOSE x \in S : TRUE
         IN  p \o <<"\n">> \o ListingText(S \ {p})

KlistListOutput(c) == <<"Principal name  Cache name\n">> \o ListingText(c.listing)

\* variant: the two flags are swapped
ForwardableFlag_Swapped(f) ==
    IF f = "None" THEN <<>>
    ELSE IF f = "True" THEN <<"-F">>
    ELSE <<"-f">>

\* forwardable flag, lines 125-130
ForwardableFlag(f) ==
    IF f = "None" THEN <<>>
    ELSE IF f = "True" THEN <<"-f">>
    ELSE <<"-F">>

KlistStatusCmd == <<"klist -s">>
KlistListCmd == <<"klist -l">>
KdestroyCmd(p) == <<"kdestroy -q -p ">> \o p \o <<" 2>&1">>
KinitCmd(pw, fwd, p) ==
    <<"echo -n '">> \o pw \o <<"' | kinit ">> \o fwd \o <<" ">> \o p
        \o <<" 2>&1 >/dev/null">>

\* exit status of `klist -s` as shell.close() sees it
KlistStatusRc == IF ~klistOK THEN 127 ELSE IF cache.valid THEN 0 ELSE 1
KlistListRc == IF klistOK THEN 0 ELSE 127
KlistListRead == IF klistOK THEN KlistListOutput(cache) ELSE <<>>

Call(prim, c, rc) == [prim |-> prim, cmd |-> c, rc |-> rc]

exit_json(r) == [kind |-> "exit", msg |-> <<>>, res |-> r, n |-> output.n + 1]

\* variant: the failure is emitted without the result's fields
fail_json_NoResult(m, r) ==
    [kind |-> "fail", msg |-> m, res |-> NoResult, n |-> output.n + 1]

fail_json(m, r) == [kind |-> "fail", msg |-> m, res |-> r, n |-> output.n + 1]

(***************************************************************************)
(* Initial state                                                           *)
(***************************************************************************)
CacheStates ==
    {c \in [valid : BOOLEAN, listing : SUBSET HostPrincipals] :
        c.valid => c.listing # {}}

\* an argument the task does not give has no value (shown here as empty)
ParamSets ==
    {p \in [username : Usernames, password : Passwords \cup {<<>>}, realm : Realms,
            force : BOOLEAN, forwardable : Tri, missing : Missing] :
        /\ (p.missing = "username") => (p.username = <<>>)
        /\ (p.missing = "realm") => (p.realm = <<>>)
        /\ (p.missing = "password") <=> (p.password = <<>>)}

Init ==
    /\ params \in ParamSets
    /\ check_mode \in BOOLEAN
    /\ klistOK \in BOOLEAN
    /\ cache \in CacheStates
    /\ cacheStart = cache
    /\ pc = "start"
    /\ cmd = None
    /\ password = None
    /\ registered = 0
    /\ forwardable = <<>>
    /\ principal = <<>>
    /\ result = NoResult
    /\ cmd_output = <<>>
    /\ calls = <<>>
    /\ output = NoOutput
    /\ run = 1
    /\ prev = NoPrev

(***************************************************************************)
(* Effects of the external primitives on the host's cache                  *)
(***************************************************************************)
\* kdestroy -q -p P: removes P's cache; when P's cache goes, klist -s may or
\* may not still find a valid primary cache among the remaining ones
KdestroyEffects(c, p) ==
    IF p \notin c.listing THEN {c}
    ELSE {[valid |-> v, listing |-> c.listing \ {p}] :
            v \in {b \in BOOLEAN : b => (c.valid /\ c.listing \ {p} # {})}}

KdestroyRc(c, p) == IF p \in c.listing THEN 0 ELSE 1

\* a successful kinit P: P's cache is the valid primary cache
KinitEffect(c, p) == [valid |-> TRUE, listing |-> c.listing \cup {p}]

KinitOutcomes == {[rc |-> 0, out |-> <<>>]} \cup KinitFailures

(***************************************************************************)
(* run_module, step by step                                                *)
(***************************************************************************)
\* lines 103-115: AnsibleModule() checks the required arguments and fails
\* the module before anything else runs when one is missing
ModuleInit ==
    /\ pc = "start"
    /\ IF params.missing # "none"
       THEN /\ output' = fail_json(<<"missing required arguments: ", params.missing>>,
                                   NoResult)
            /\ pc' = "exiting"
       ELSE /\ pc' = "parsed"
            /\ UNCHANGED output
    /\ UNCHANGED <<params, check_mode, klistOK, cache, cacheStart, cmd, password,
                   registered, forwardable, principal, result, cmd_output, calls,
                   run, prev>>

\* variant: the hook is not registered
RegisterAtexit_Skip ==
    /\ pc = "parsed"
    /\ pc' = "registered"
    /\ UNCHANGED <<params, check_mode, klistOK, cache, cacheStart, cmd, password,
                   registered, forwardable, principal, result, cmd_output, calls,
                   output, run, prev>>

\* line 118
RegisterAtexit ==
    /\ pc = "parsed"
    /\ registered' = registered + 1
    /\ pc' = "registered"
    /\ UNCHANGED <<params, check_mode, klistOK, cache, cacheStart, cmd, password,
                   forwardable, principal, result, cmd_output, calls, output,
                   run, prev>>

\* variant: the result starts out as changed
BuildResult_ChangedTrue(p, fwd, princ) ==
    [changed |-> TRUE, username |-> p.username, password |-> REDACTED,
     realm |-> p.realm, principal |-> princ, force |-> p.force,
     forwardable |-> fwd]

\* lines 134-142
BuildResult(p, fwd, princ) ==
    [changed |-> FALSE, username |-> p.username, password |-> REDACTED,
     realm |-> p.realm, principal |-> princ, force |-> p.force,
     forwardable |-> fwd]

\* lines 120-142
ReadParams ==
    /\ pc = "registered"
    /\ password' = Str(params.password)
    /\ forwardable' = ForwardableFlag(params.forwardable)
    /\ principal' = params.username \o <<"@">> \o params.realm
    /\ result' = BuildResult(params, forwardable', principal')
    /\ pc' = "decide"
    /\ UNCHANGED <<params, check_mode, klistOK, cache, cacheStart, cmd,
                   registered, cmd_output, calls, output, run, prev>>

\* line 146
CheckModeTest ==
    /\ pc = "decide"
    /\ pc' = IF check_mode THEN "dry" ELSE "act"
    /\ UNCHANGED <<params, check_mode, klistOK, cache, cacheStart, cmd, password,
                   registered, forwardable, principal, result, cmd_output, calls,
                   output, run, prev>>

\* variant: line 164's exit_json is missing, the run falls through to line 168
DryRunReportChanged_FallThrough ==
    /\ result' = [result EXCEPT !.changed = TRUE]
    /\ pc' = "act"
    /\ UNCHANGED output

\* lines 163-164
DryRunReportChanged ==
    /\ result' = [result EXCEPT !.changed = TRUE]
    /\ output' = exit_json(result')
    /\ pc' = "exiting"

\* variant: check mode consults the cache even when force is set
DryRunStatus_IgnoreForce ==
    /\ pc = "dry"
    /\ cmd' = Str(KlistStatusCmd)
    /\ calls' = Append(calls, Call("klist -s", KlistStatusCmd, KlistStatusRc))
    /\ IF KlistStatusRc = 0
       THEN /\ pc' = "dry_list"
            /\ UNCHANGED <<result, output>>
       ELSE DryRunReportChanged
    /\ UNCHANGED <<params, check_mode, klistOK, cache, cacheStart, password,
                   registered, forwardable, principal, cmd_output, run, prev>>

\* lines 146-153 (and 163-164 when the listing is not consulted)
DryRunStatus ==
    /\ pc = "dry"
    /\ IF ~result.force
       THEN /\ cmd' = Str(KlistStatusCmd)
            /\ calls' = Append(calls, Call("klist -s", KlistStatusCmd, KlistStatusRc))
            /\ IF KlistStatusRc = 0
               THEN /\ pc' = "dry_list"
                    /\ UNCHANGED <<result, output>>
               ELSE DryRunReportChanged
       ELSE /\ DryRunReportChanged
            /\ UNCHANGED <<cmd, calls>>
    /\ UNCHANGED <<params, check_mode, klistOK, cache, cacheStart, password,
                   registered, forwardable, principal, cmd_output, run, prev>>

\* variant: check mode does not look for the principal in the listing
DryRunListing_NoPrincipalCheck ==
    /\ pc = "dry_list"
    /\ cmd' = Str(KlistListCmd)
    /\ calls' = Append(calls, Call("klist -l", KlistListCmd, KlistListRc))
    /\ cmd_output' = KlistListRead
    /\ output' = exit_json(result)
    /\ pc' = "exiting"
    /\ UNCHANGED <<params, check_mode, klistOK, cache, cacheStart, password,
                   registered, forwardable, principal, result, run, prev>>

\* lines 155-164
DryRunListing ==
    /\ pc = "dry_list"
    /\ cmd' = Str(KlistListCmd)
    /\ calls' = Append(calls, Call("klist -l", KlistListCmd, KlistListRc))
    /\ cmd_output' = KlistListRead
    /\ IF Find(cmd_output', principal) # -1
       THEN /\ output' = exit_json(result)
            /\ pc' = "exiting"
            /\ UNCHANGED result
       ELSE DryRunReportChanged
    /\ UNCHANGED <<params, check_mode, klistOK, cache, cacheStart, password,
                   registered, forwardable, principal, run, prev>>

\* variant: a failing kdestroy (no ticket to destroy) ends the run
ForceDestroy_FailOnError ==
    /\ pc = "act"
    /\ result.force
    /\ cmd' = Str(KdestroyCmd(principal))
    /\ calls' = Append(calls, Call("kdestroy", KdestroyCmd(principal),
                                   KdestroyRc(cache, principal)))
    /\ cache' \in KdestroyEffects(cache, principal)
    /\ IF KdestroyRc(cache, principal) # 0
       THEN /\ output' = fail_json(<<"kdestroy failed">>, result)
            /\ pc' = "exiting"
       ELSE /\ pc' = "acquire"
            /\ UNCHANGED output
    /\ UNCHANGED <<params, check_mode, klistOK, cacheStart, password, registered,
                   forwardable, principal, result, cmd_output, run, prev>>

\* lines 168-171
ForceDestroy ==
    /\ pc = "act"
    /\ result.force
    /\ cmd' = Str(KdestroyCmd(principal))
    /\ calls' = Append(calls, Call("kdestroy", KdestroyCmd(principal),
                                   KdestroyRc(cache, principal)))
    /\ cache' \in KdestroyEffects(cache, principal)
    /\ pc' = "acquire"
    /\ UNCHANGED <<params, check_mode, klistOK, cacheStart, password, registered,
                   forwardable, principal, result, cmd_output, output, run, prev>>

\* lines 172-178
KlistStatus ==
    /\ pc = "act"
    /\ ~result.force
    /\ cmd' = Str(KlistStatusCmd)
    /\ calls' = Append(calls, Call("klist -s", KlistStatusCmd, KlistStatusRc))
    /\ pc' = IF KlistStatusRc = 0 THEN "list" ELSE "acquire"
    /\ UNCHANGED <<params, check_mode, klistOK, cache, cacheStart, password,
                   registered, forwardable, principal, result, cmd_output, output,
                   run, prev>>

\* variant: the no-op outcome is emitted but the run carries on to line 190
KlistListing_NoExitAfterEmit ==
    /\ pc = "list"
    /\ cmd' = Str(KlistListCmd)
    /\ calls' = Append(calls, Call("klist -l", KlistListCmd, KlistListRc))
    /\ cmd_output' = KlistListRead
    /\ IF Find(cmd_output', principal) # -1
       THEN output' = exit_json(result)
       ELSE UNCHANGED output
    /\ pc' = "acquire"
    /\ UNCHANGED <<params, check_mode, klistOK, cache, cacheStart, password,
                   registered, forwardable, principal, result, run, prev>>

\* variant: the test of line 185 is inverted
KlistListing_Inverted ==
    /\ pc = "list"
    /\ cmd' = Str(KlistListCmd)
    /\ calls' = Append(calls, Call("klist -l", KlistListCmd, KlistListRc))
    /\ cmd_output' = KlistListRead
    /\ IF Find(cmd_output', principal) = -1
       THEN /\ output' = exit_json(result)
            /\ pc' = "exiting"
       ELSE /\ pc' = "acquire"
            /\ UNCHANGED output
    /\ UNCHANGED <<params, check_mode, klistOK, cache, cacheStart, password,
                   registered, forwardable, principal, result, run, prev>>

\* variant: any valid ticket counts, the principal is not looked for
KlistListing_NoPrincipalCheck ==
    /\ pc = "list"
    /\ cmd' = Str(KlistListCmd)
    /\ calls' = Append(calls, Call("klist -l", KlistListCmd, KlistListRc))
    /\ cmd_output' = KlistListRead
    /\ output' = exit_json(result)
    /\ pc' = "exiting"
    /\ UNCHANGED <<params, check_mode, klistOK, cache, cacheStart, password,
                   registered, forwardable, principal, result, run, prev>>

\* lines 180-186
KlistListing ==
    /\ pc = "list"
    /\ cmd' = Str(KlistListCmd)
    /\ calls' = Append(calls, Call("klist -l", KlistListCmd, KlistListRc))
    /\ cmd_output' = KlistListRead
    /\ IF Find(cmd_output', principal) # -1
       THEN /\ output' = exit_json(result)
            /\ pc' = "exiting"
       ELSE /\ pc' = "acquire"
            /\ UNCHANGED output
    /\ UNCHANGED <<params, check_mode, klistOK, cache, cacheStart, password,
                   registered, forwardable, principal, result, run, prev>>

\* variant: a generic message instead of kinit's own text
FailureMsg_Generic(out) == <<"kinit failed">>

\* line 196: the diagnostic handed to fail_json
FailureMsg(out) == out

\* variant: a failed kinit is tried once more before giving up
Kinit_Retry ==
    /\ pc = "acquire"
    /\ cmd' = Str(KinitCmd(password.val, forwardable, principal))
    /\ \E o \in KinitOutcomes :
        /\ calls' = Append(calls, Call("kinit", cmd'.val, o.rc))
        /\ cmd_output' = o.out
        /\ IF o.rc # 0
           THEN /\ IF \E i \in DOMAIN calls : calls[i].prim = "kinit"
                   THEN /\ output' = fail_json(FailureMsg(cmd_output'), result)
                        /\ pc' = "exiting"
                   ELSE /\ pc' = "acquire"
                        /\ UNCHANGED output
                /\ UNCHANGED cache
           ELSE /\ pc' = "acquired"
                /\ cache' = KinitEffect(cache, principal)
                /\ UNCHANGED output
    /\ UNCHANGED <<params, check_mode, klistOK, cacheStart, password, registered,
                   forwardable, principal, result, run, prev>>

\* lines 190-196
Kinit ==
    /\ pc = "acquire"
    /\ cmd' = Str(KinitCmd(password.val, forwardable, principal))
    /\ \E o \in KinitOutcomes :
        /\ calls' = Append(calls, Call("kinit", cmd'.val, o.rc))
        /\ cmd_output' = o.out
        /\ IF o.rc # 0
           THEN /\ output' = fail_json(FailureMsg(cmd_output'), result)
                /\ pc' = "exiting"
                /\ UNCHANGED cache
           ELSE /\ pc' = "acquired"
                /\ cache' = KinitEffect(cache, principal)
                /\ UNCHANGED output
    /\ UNCHANGED <<params, check_mode, klistOK, cacheStart, password, registered,
                   forwardable, principal, result, run, prev>>

\* lines 198-202
Finish ==
    /\ pc = "acquired"
    /\ cmd' = None
    /\ password' = None
    /\ result' = [result EXCEPT !.changed = TRUE]
    /\ output' = exit_json(result')
    /\ pc' = "exiting"
    /\ UNCHANGED <<params, check_mode, klistOK, cache, cacheStart, registered,
                   forwardable, principal, cmd_output, calls, run, prev>>

\* variant: the hook forgets the globals
clear_sensitive_data_Nothing == UNCHANGED <<cmd, password>>

\* lines 94-97: del cmd, password
clear_sensitive_data ==
    /\ cmd' = Unbound
    /\ password' = Unbound

\* interpreter exit after exit_json / fail_json: the registered hooks run
AtExit ==
    /\ pc = "exiting"
    /\ IF registered > 0
       THEN clear_sensitive_data
       ELSE UNCHANGED <<cmd, password>>
    /\ pc' = "exited"
    /\ UNCHANGED <<params, check_mode, klistOK, cache, cacheStart, registered,
                   forwardable, principal, result, cmd_output, calls, output,
                   run, prev>>

\* the task is run again: a new process, module level lines 91-92; the same
\* task arguments except possibly the password, in check mode or not
NextRun ==
    /\ pc = "exited"
    /\ run < MaxRuns
    /\ run' = run + 1
    /\ prev' = [ran |-> TRUE, check |-> check_mode, password |-> params.password,
                cacheStart |-> cacheStart, calls |-> calls, output |-> output]
    /\ \E pw \in Passwords :
        params' = IF params.missing = "password" THEN params
                  ELSE [params EXCEPT !.password = pw]
    /\ check_mode' \in BOOLEAN
    /\ cacheStart' = cache
    /\ pc' = "start"
    /\ cmd' = None
    /\ password' = None
    /\ registered' = 0
    /\ forwardable' = <<>>
    /\ principal' = <<>>
    /\ result' = NoResult
    /\ cmd_output' = <<>>
    /\ calls' = <<>>
    /\ output' = NoOutput
    /\ UNCHANGED <<klistOK, cache>>

Next ==
    \/ ModuleInit
    \/ RegisterAtexit
    \/ ReadParams
    \/ CheckModeTest
    \/ DryRunStatus
    \/ DryRunListing
    \/ ForceDestroy
    \/ KlistStatus
    \/ KlistListing
    \/ Kinit
    \/ Finish
    \/ AtExit
    \/ NextRun

Spec == Init /\ [][Next]_vars

\* one invocation: everything but the start of a new process
RunStep ==
    \/ ModuleInit
    \/ RegisterAtexit
    \/ ReadParams
    \/ CheckModeTest
    \/ DryRunStatus
    \/ DryRunListing
    \/ ForceDestroy
    \/ KlistStatus
    \/ KlistListing
    \/ Kinit
    \/ Finish
    \/ AtExit

\* another process on the host lets the tickets expire or destroys the whole
\* cache while the run is between two of its steps
EnvChange ==
    /\ pc \notin {"start", "exited"}
    /\ cache' \in {[cache EXCEPT !.valid = FALSE], [valid |-> FALSE, listing |-> {}]}
    /\ cache' # cache
    /\ UNCHANGED <<params, check_mode, klistOK, cacheStart, pc, cmd, password,
                   registered, forwardable, principal, result, cmd_output, calls,
                   output, run, prev>>

\* one invocation on a host whose cache other processes change
SpecRace == Init /\ [][RunStep \/ EnvChange]_vars

\* one invocation, from any initial host state; a started process keeps
\* executing: every os.popen call returns
FairSpec == Init /\ [][RunStep]_vars /\ WF_vars(RunStep)

(***************************************************************************)
(* Vocabulary of the properties                                            *)
(***************************************************************************)
Completed == pc \in {"exiting", "exited"}
ArgsGiven == params.missing = "none"
\* an ordinary request: all arguments given, username and realm not empty
WellFormed == ArgsGiven /\ params.username # <<>> /\ params.realm # <<>>
RequestPrincipal == params.username \o <<"@">> \o params.realm
Invoked(cs, prim) == \E i \in DOMAIN cs : cs[i].prim = prim
Succeeded(cs, prim) == \E i \in DOMAIN cs : cs[i].prim = prim /\ cs[i].rc = 0
Failed(cs, prim) == \E i \in DOMAIN cs : cs[i].prim = prim /\ cs[i].rc # 0
IsKlist(c) == c.prim \in {"klist -s", "klist -l"}
KlistCalls(cs) == SelectSeq(cs, IsKlist)
ListedAtStart == Find(KlistListOutput(cacheStart), RequestPrincipal) # -1
Contains(text, s) == Find(text, s) # -1

(***************************************************************************)
(* C1  Dry-run purity: in check mode neither kdestroy nor kinit is ever    *)
(* invoked, whatever force, the cache's validity and the listing are; only *)
(* klist -s and klist -l may be called (and the cache stays as it was).    *)
(***************************************************************************)
DryRunPurity ==
    check_mode =>
        /\ \A i \in DOMAIN calls : IsKlist(calls[i])
        /\ ~Invoked(calls, "kdestroy")
        /\ ~Invoked(calls, "kinit")
        /\ cache = cacheStart

\* a forced check-mode run that ended reporting changed, with the host holding
\* a valid ticket for the principal
DryRunPurityWitness ==
    /\ check_mode /\ pc = "exited" /\ result.force
    /\ cacheStart.valid /\ ListedAtStart
    /\ output.kind = "exit" /\ output.res.changed

(***************************************************************************)
(* C2  Idempotence: with a valid ticket present and the principal in the   *)
(* listing, every invocation with force = false, however many follow one   *)
(* another, reports changed = false, calls neither kdestroy nor kinit and  *)
(* leaves the cache as it was.                                             *)
(***************************************************************************)
NoOpCase ==
    /\ ArgsGiven /\ ~params.force
    /\ klistOK /\ cacheStart.valid /\ ListedAtStart

Idempotence ==
    NoOpCase =>
        /\ ~Invoked(calls, "kdestroy")
        /\ ~Invoked(calls, "kinit")
        /\ cache = cacheStart
        /\ ~result.changed
        /\ Completed => (output.kind = "exit" /\ ~output.res.changed)

\* the last of the successive real invocations ended as a no-op, after a
\* previous real one that was a no-op on the same cache
IdempotenceWitness ==
    /\ NoOpCase /\ pc = "exited" /\ run = MaxRuns /\ ~check_mode
    /\ Len(calls) = 2
    /\ prev.ran /\ ~prev.check /\ prev.cacheStart = cacheStart
    /\ prev.output.kind = "exit" /\ ~prev.output.res.changed

(***************************************************************************)
(* C3  Secret non-leak: the secret never appears in the emitted result, in *)
(* the diagnostic text or in the command line of any external primitive    *)
(* that is invoked.  (Stated for requests with a non-empty username and    *)
(* realm.)                                                                 *)
(***************************************************************************)
SecretNonLeak ==
    WellFormed =>
        /\ \A i \in DOMAIN calls : ~Contains(calls[i].cmd, params.password)
        /\ ~Contains(output.msg, params.password)
        /\ \A f \in {"username", "password", "realm", "principal", "forwardable"} :
              ~Contains(output.res[f], params.password)

(***************************************************************************)
(* C4  Scrub guarantee: once a request has completed, by any exit path,    *)
(* neither the password variable nor the command string holds the secret.  *)
(***************************************************************************)
HoldsSecret(v) == v.kind = "Str" /\ params.password # <<>> /\ Contains(v.val, params.password)

ScrubGuarantee ==
    pc = "exited" => (~HoldsSecret(password) /\ ~HoldsSecret(cmd))

\* a run whose acquisition failed (the secret was in both globals when
\* fail_json was called) has completed
ScrubGuaranteeWitness ==
    /\ pc = "exited" /\ output.kind = "fail" /\ Failed(calls, "kinit")
    /\ Contains(calls[Len(calls)].cmd, params.password)

(***************************************************************************)
(* C5  Force dominance, as stated: every run with force = true reports     *)
(* changed = true, whatever the ticket state was.  (Stated for requests    *)
(* with a non-empty username and realm.)                                   *)
(***************************************************************************)
ForceDominanceAsStated ==
    (Completed /\ WellFormed /\ params.force) => output.res.changed

(***************************************************************************)
(* C5  Force dominance, amended: every run with force = true that passes   *)
(* argument validation reports changed = true, whatever the ticket state   *)
(* was, unless its kinit call fails, and then it reports the failure with  *)
(* changed = false; in check mode changed = true is reported without any   *)
(* call at all.                                                            *)
(***************************************************************************)
ForceDominance ==
    (Completed /\ ArgsGiven /\ params.force) =>
        IF check_mode
        THEN output.kind = "exit" /\ output.res.changed /\ calls = <<>>
        ELSE IF Failed(calls, "kinit")
             THEN output.kind = "fail" /\ ~output.res.changed
             ELSE output.kind = "exit" /\ output.res.changed

\* a forced real run on a host with a valid ticket for the principal ended
\* with changed = true
ForceDominanceWitness ==
    /\ pc = "exited" /\ ArgsGiven /\ params.force /\ ~check_mode
    /\ cacheStart.valid /\ ListedAtStart
    /\ output.kind = "exit" /\ output.res.changed

(***************************************************************************)
(* C6  Principal specificity: in a real run with force = false, when       *)
(* klist -s reports a valid ticket but the listing does not contain the    *)
(* principal, kinit is invoked for the principal, changed = true is        *)
(* reported when it succeeds, and the run never ends as a no-op.           *)
(***************************************************************************)
OtherPrincipalsOnly ==
    /\ ArgsGiven /\ ~params.force /\ ~check_mode
    /\ klistOK /\ cacheStart.valid /\ ~ListedAtStart

PrincipalSpecificity ==
    (OtherPrincipalsOnly /\ Completed) =>
        /\ \E i \in DOMAIN calls :
              /\ calls[i].prim = "kinit"
              /\ calls[i].cmd = KinitCmd(params.password,
                                         ForwardableFlag(params.forwardable),
                                         RequestPrincipal)
        /\ Succeeded(calls, "kinit") => (output.kind = "exit" /\ output.res.changed)
        /\ ~(output.kind = "exit" /\ ~output.res.changed)

PrincipalSpecificityWitness ==
    /\ OtherPrincipalsOnly /\ pc = "exited"
    /\ params.username = <<"a">> /\ cacheStart.listing = {<<"c", "@", "R">>}
    /\ output.kind = "exit" /\ output.res.changed

(***************************************************************************)
(* C7  changed = true only after success: in a real run changed is true    *)
(* only if kinit has been invoked in this run and returned success; in     *)
(* check mode only after the decision logic found that an acquisition      *)
(* would occur (force, or klist -s failing, or the principal not listed).  *)
(***************************************************************************)
WouldAcquire ==
    \/ result.force
    \/ Len(calls) >= 1 /\ calls[1].prim = "klist -s" /\ calls[1].rc # 0
    \/ /\ Len(calls) = 2 /\ calls[2].prim = "klist -l"
       /\ ~Contains(cmd_output, principal)

ChangedOnlyAfterSuccess ==
    /\ result.changed => IF check_mode THEN WouldAcquire
                         ELSE Succeeded(calls, "kinit")
    /\ output.res.changed => result.changed

ChangedOnlyAfterSuccessWitness ==
    /\ ~check_mode /\ result.changed /\ Succeeded(calls, "kinit")
    /\ ~result.force /\ Len(calls) = 3

(***************************************************************************)
(* C8  Acquisition failure: when kinit runs and fails, the run ends in the *)
(* failure outcome with changed = false and, as diagnostic, exactly the    *)
(* text kinit produced; no success is emitted and kinit is not retried.    *)
(***************************************************************************)
KinitCount == Cardinality({i \in DOMAIN calls : calls[i].prim = "kinit"})

AcquireFailure ==
    Failed(calls, "kinit") =>
        /\ Completed
        /\ output.kind = "fail"
        /\ ~output.res.changed
        /\ output.msg = cmd_output
        /\ cmd_output \in {f.out : f \in KinitFailures}
        /\ KinitCount = 1
        /\ calls[Len(calls)].prim = "kinit"

AcquireFailureWitness ==
    /\ pc = "exited" /\ Failed(calls, "kinit")
    /\ output.msg = <<"kinit: Password incorrect">>

(***************************************************************************)
(* C9  Invocation error: if klist -s cannot be invoked at all, the run     *)
(* ends in a failure outcome; it does not go on to kinit as if there were  *)
(* no ticket, and in check mode it does not report changed = true.         *)
(* (Stated for requests with a non-empty username and realm.)              *)
(***************************************************************************)
StatusNotInvocable ==
    \E i \in DOMAIN calls : calls[i].prim = "klist -s" /\ calls[i].rc = 127

InvocationErrorPropagates ==
    (WellFormed /\ StatusNotInvocable) =>
        /\ ~Invoked(calls, "kinit")
        /\ ~result.changed
        /\ Completed => output.kind = "fail"

(***************************************************************************)
(* C10  Dry-run faithfulness: a check-mode run and a real run on the same  *)
(* arguments and the same cache issue the same klist calls in the same     *)
(* order, and report the same changed value when the real run's            *)
(* acquisition does not fail.                                              *)
(***************************************************************************)
DryThenReal ==
    /\ prev.ran /\ prev.check /\ ~check_mode
    /\ ArgsGiven /\ prev.password = params.password
    /\ prev.cacheStart = cacheStart
    /\ Completed

DryRunFaithful ==
    DryThenReal =>
        /\ KlistCalls(prev.calls) = KlistCalls(calls)
        /\ prev.output.kind = "exit"
        /\ (output.kind = "exit") =>
              (prev.output.res.changed = output.res.changed)

\* both runs consulted status and listing and found the principal missing
DryRunFaithfulWitness ==
    /\ DryThenReal /\ pc = "exited" /\ output.kind = "exit"
    /\ output.res.changed /\ Len(KlistCalls(calls)) = 2 /\ ~params.force

(***************************************************************************)
(* C11  Forced replacement: in a real run with force = true, kdestroy is   *)
(* invoked exactly once, for the request's principal, as the first call    *)
(* and before kinit, with no klist call at all; whatever kdestroy returns, *)
(* the run goes on to invoke kinit.                                        *)
(***************************************************************************)
KdestroyCount == Cardinality({i \in DOMAIN calls : calls[i].prim = "kdestroy"})

ForcedReal == ArgsGiven /\ params.force /\ ~check_mode

ForceReplaceOrder ==
    (ForcedReal /\ pc \in {"acquire", "acquired", "exiting", "exited"}) =>
        /\ Len(calls) >= 1
        /\ calls[1].prim = "kdestroy"
        /\ calls[1].cmd = KdestroyCmd(RequestPrincipal)
        /\ KdestroyCount = 1
        /\ \A i \in DOMAIN calls : ~IsKlist(calls[i])
        /\ (pc # "acquire") => (Len(calls) = 2 /\ calls[2].prim = "kinit")

\* kdestroy found no ticket to destroy (non-zero status) and kinit ran after it
ForceReplaceOrderWitness ==
    /\ ForcedReal /\ pc = "exited" /\ WellFormed
    /\ calls[1].prim = "kdestroy" /\ calls[1].rc # 0
    /\ calls[2].prim = "kinit" /\ calls[2].rc = 0

(***************************************************************************)
(* C12  Forwardability: forwardable unset gives no flag, true gives '-f',  *)
(* false gives '-F'; that token is the one on kinit's command line and the *)
(* one in the result's forwardable field on every exit path.               *)
(***************************************************************************)
ExpectedFlag ==
    CASE params.forwardable = "None" -> <<>>
      [] params.forwardable = "True" -> <<"-f">>
      [] params.forwardable = "False" -> <<"-F">>

\* the run has passed argument validation and built its result (line 142)
ResultBuilt == ArgsGiven /\ pc \notin {"start", "parsed", "registered"}

ForwardableMapping ==
    ResultBuilt =>
        /\ forwardable = ExpectedFlag
        /\ result.forwardable = ExpectedFlag
        /\ \A i \in DOMAIN calls :
              (calls[i].prim = "kinit") =>
                  calls[i].cmd = <<"echo -n '">> \o params.password \o <<"' | kinit ">>
                                    \o ExpectedFlag \o <<" ">> \o RequestPrincipal
                                    \o <<" 2>&1 >/dev/null">>
        /\ (output.kind # "none") => (output.res.forwardable = ExpectedFlag)

\* a non-forwardable ticket was requested and obtained
ForwardableMappingWitness ==
    /\ pc = "exited" /\ params.forwardable = "False" /\ WellFormed
    /\ Succeeded(calls, "kinit") /\ output.res.forwardable = <<"-F">>

(***************************************************************************)
(* C13  Untouched or replaced: every completed invocation leaves the cache *)
(* either exactly as it was at the start, or holding a freshly acquired    *)
(* ticket for the principal; none ends with the ticket destroyed and no    *)
(* new one acquired.  (Stated for requests with a non-empty username and   *)
(* realm, on a host that holds a valid ticket for the principal.)          *)
(***************************************************************************)
FreshTicket ==
    /\ Succeeded(calls, "kinit")
    /\ cache.valid /\ RequestPrincipal \in cache.listing

UntouchedOrReplaced ==
    (/\ pc = "exited" /\ WellFormed
     /\ cacheStart.valid /\ RequestPrincipal \in cacheStart.listing)
        => (cache = cacheStart \/ FreshTicket)

(***************************************************************************)
(* C14  Scrub before emission: once kinit has been called, the password    *)
(* variable and the command string no longer hold the secret when the      *)
(* outcome is emitted, on the success path and on the failure path.        *)
(* (Stated for requests with a non-empty username and realm, on a host     *)
(* where klist can be run.)                                                *)
(***************************************************************************)
ScrubbedBeforeEmit ==
    (WellFormed /\ klistOK /\ Invoked(calls, "kinit") /\ output.kind # "none") =>
        (~HoldsSecret(password) /\ ~HoldsSecret(cmd))

(***************************************************************************)
(* C15  Single use: in one invocation kinit is invoked at most once and    *)
(* kdestroy at most once, and once a failure outcome is out no further     *)
(* primitive is invoked by that invocation.                                *)
(***************************************************************************)
AtMostOnce == KinitCount <= 1 /\ KdestroyCount <= 1

NoCallAfterFailure ==
    [][(output.kind = "fail" /\ run' = run) => (calls' = calls)]_vars

SingleUse == []AtMostOnce /\ NoCallAfterFailure

\* a forced run called kdestroy and kinit once each and ended in failure
SingleUseWitness ==
    /\ pc = "exited" /\ output.kind = "fail"
    /\ KinitCount = 1 /\ KdestroyCount = 1

(***************************************************************************)
(* C16  One branch, one outcome: provided every primitive call returns,    *)
(* every invocation that reaches the decision takes exactly one of Skip,   *)
(* ForceReplace and ConditionalAcquire, ends (exit or failure) having      *)
(* emitted exactly one outcome, and invokes no primitive once the outcome  *)
(* is out.                                                                 *)
(***************************************************************************)
NoMutation == ~Invoked(calls, "kdestroy") /\ ~Invoked(calls, "kinit")

TookSkip == NoMutation /\ output.kind = "exit" /\ ~output.res.changed

TookForceReplace ==
    IF check_mode
    THEN params.force /\ output.res.changed
    ELSE Invoked(calls, "kdestroy") /\ Invoked(calls, "kinit")

TookConditionalAcquire ==
    IF check_mode
    THEN ~params.force /\ output.res.changed
    ELSE ~Invoked(calls, "kdestroy") /\ Invoked(calls, "kinit")

BranchCount ==
    Cardinality({b \in {"skip", "force", "conditional"} :
        \/ b = "skip" /\ TookSkip
        \/ b = "force" /\ TookForceReplace
        \/ b = "conditional" /\ TookConditionalAcquire})

OneOutcome ==
    /\ Completed => (output.n = 1 /\ output.kind \in {"exit", "fail"})
    /\ ~Completed => (output.n = 0 /\ output.kind = "none")
    /\ (Completed /\ ArgsGiven) => BranchCount = 1

NoCallAfterOutcome ==
    [][(output.kind # "none" /\ run' = run) => (calls' = calls)]_vars

EveryRunEnds == (pc = "start") ~> (pc = "exited")

OneBranchOneOutcome == EveryRunEnds /\ []OneOutcome /\ NoCallAfterOutcome

\* a real run ended as a no-op after the status and the listing call
OneBranchOneOutcomeWitness ==
    /\ pc = "exited" /\ WellFormed /\ ~check_mode
    /\ TookSkip /\ Len(calls) = 2 /\ output.n = 1

(***************************************************************************)
(* C17  Time of check, time of use: the status check, the listing read and *)
(* the action are separate steps on a shared cache.  With another process  *)
(* changing the cache in between, a run with force = false ends as a no-op *)
(* (changed = false, no kinit) exactly when its own two reads said "valid" *)
(* and "principal listed", whatever the cache holds by then: it can end so *)
(* while the cache holds no valid ticket for the principal.                *)
(***************************************************************************)
ReadsSaidValid ==
    /\ Len(calls) >= 2
    /\ calls[1].prim = "klist -s" /\ calls[1].rc = 0
    /\ calls[2].prim = "klist -l"
    /\ Contains(cmd_output, RequestPrincipal)

RaceNotMasked ==
    (ArgsGiven /\ ~params.force /\ Completed) =>
        (ReadsSaidValid <=>
            (output.kind = "exit" /\ ~output.res.changed /\ ~Invoked(calls, "kinit")))

\* a real run ended as a no-op on a cache that was valid at its start and
\* holds no valid ticket at its end
RaceNotMaskedWitness ==
    /\ WellFormed /\ ~params.force /\ ~check_mode /\ pc = "exited"
    /\ output.kind = "exit" /\ ~output.res.changed /\ ~Invoked(calls, "kinit")
    /\ cacheStart.valid /\ RequestPrincipal \in cacheStart.listing
    /\ ~cache.valid

(***************************************************************************)
(* C18  Empty principal: a request whose username or realm is empty is     *)
(* rejected with a failure outcome before the decision is reached; no      *)
(* klist, kdestroy or kinit call is made.                                  *)
(***************************************************************************)
EmptyPrincipal == ArgsGiven /\ (params.username = <<>> \/ params.realm = <<>>)

EmptyPrincipalRejected ==
    EmptyPrincipal =>
        /\ calls = <<>>
        /\ Completed => output.kind = "fail"

(***************************************************************************)
(* C19  Frame of the result: from the moment the result is built until it  *)
(* is emitted only changed is modified; username, realm, principal         *)
(* (username @ realm), force, forwardable and the redacted password have   *)
(* the values built from the inputs, on the no-op, dry-run, success and    *)
(* failure exits alike, and what is emitted is that result.                *)
(***************************************************************************)
FrameFields(r) ==
    <<r.username, r.realm, r.principal, r.force, r.forwardable, r.password>>

FrameFromInputs ==
    <<params.username, params.realm, params.username \o <<"@">> \o params.realm,
      params.force, ExpectedFlag, <<"[REDACTED]">>>>

ResultFrame ==
    ResultBuilt =>
        /\ FrameFields(result) = FrameFromInputs
        /\ (output.kind # "none") =>
              /\ FrameFields(output.res) = FrameFromInputs
              /\ output.res.changed = result.changed
              /\ (output.kind = "exit") => (output.msg = <<>>)

\* the failure exit carries the fields as built
ResultFrameWitness ==
    /\ pc = "exited" /\ output.kind = "fail" /\ params.force
    /\ params.forwardable = "True"
    /\ output.res.principal = <<"b", "a", "@", "R">>

(***************************************************************************)
(* C20  Cleanup hook: whenever the global password or cmd holds the        *)
(* secret, clear_sensitive_data is already registered; it is registered at *)
(* most once per process, and a process that registered it has both        *)
(* globals unbound once it has exited.                                     *)
(***************************************************************************)
HookRegistered ==
    /\ registered <= 1
    /\ (HoldsSecret(password) \/ HoldsSecret(cmd)) => (registered = 1)
    /\ (password.kind = "Str") => (registered = 1)
    /\ (pc = "exited" /\ registered = 1) => (cmd = Unbound /\ password = Unbound)
    /\ (pc = "exited" /\ registered = 0) => (cmd = None /\ password = None)

\* both globals hold the secret, between kinit's return and line 198
HookRegisteredWitness ==
    /\ pc = "acquired" /\ registered = 1
    /\ HoldsSecret(password) /\ HoldsSecret(cmd)

====
